---- MODULE Spec2Model ----
(***************************************************************************)
(* gitweb.js: language detection for gitweb(1) blob pages.                 *)
(*                                                                         *)
(* The model follows the current version of the library (the file whose    *)
(* header reads "gitweb.js: Basic language detection and syntax            *)
(* highlighting support for legacy gitweb(1)", src/unnamed/part_002).      *)
(* JavaScript strings are TLA+ strings; arrays are sequences (index i in   *)
(* JavaScript is index i + 1 here); an object literal is the sequence of   *)
(* its <<key, value>> pairs in declaration order, which is the order       *)
(* Object.keys enumerates.  A call that may throw returns a record         *)
(* [ok, val]: ok = TRUE carries the value, ok = FALSE the error's name.    *)
(***************************************************************************)
EXTENDS Integers, Sequences, FiniteSets, TLC

(***************************************************************************)
(* JavaScript's null and undefined.  No input string of the model contains *)
(* the character '<', so neither collides with a page identifier, a first  *)
(* line, a file type or a table key.                                       *)
(***************************************************************************)
Null == "<null>"
Undefined == "<undefined>"

Ok(v) == [ok |-> TRUE, val |-> v]
Throw(e) == [ok |-> FALSE, val |-> e]

(***************************************************************************)
(* Constants of the library.                                               *)
(***************************************************************************)
SHEBANG == "#!"

LANG_PRIMARY_FILE_TYPES ==
  << <<"bash", "sh">>, <<"c", "c">>, <<"cpp", "cpp">>, <<"cs", "cs">>,
     <<"css", "css">>, <<"javascript", "js">>, <<"go", "go">>,
     <<"html", "html">>, <<"markdown", "md">>, <<"php", "php">>,
     <<"perl", "pl">>, <<"python", "py">>, <<"ruby", "rb">>,
     <<"sql", "sql">>, <<"typescript", "ts">>, <<"xml", "xml">>,
     <<"yaml", "yml">> >>

\* the synonym table with the C headers entered for C++ as well
LANG_FILE_TYPE_SYNONYMS_SharedHeader ==
  << <<"bash", <<"bash", "csh", "ksh", "zsh">> >>,
     <<"cpp", <<"h", "hpp">> >>,
     <<"c", <<"h">> >>,
     <<"html", <<"htm", "dhtml", "xhtml">> >>,
     <<"javascript", <<"jse", "json">> >>,
     <<"markdown", <<"markdown">> >>,
     <<"perl", <<"cgi", "perl">> >>,
     <<"php", <<"php5", "phar", "phtml">> >>,
     <<"python", <<"pyc">> >>,
     <<"ruby", <<"erb">> >> >>

LANG_FILE_TYPE_SYNONYMS ==
  << <<"bash", <<"bash", "csh", "ksh", "zsh">> >>,
     <<"c", <<"h">> >>,
     <<"html", <<"htm", "dhtml", "xhtml">> >>,
     <<"javascript", <<"jse", "json">> >>,
     <<"markdown", <<"markdown">> >>,
     <<"perl", <<"cgi", "perl">> >>,
     <<"php", <<"php5", "phar", "phtml">> >>,
     <<"python", <<"pyc">> >>,
     <<"ruby", <<"erb">> >> >>

FILE_TYPE_ASSOCIATIONS ==
  << <<"html", <<"css", "js", "php">> >>,
     <<"json", <<"js">> >>,
     <<"javascript", <<"css", "html", "json", "php">> >>,
     <<"php", <<"css", "html", "js">> >> >>

EXEC_LANG_NAMES ==
  <<"bash", "c", "cpp", "cs", "go", "perl", "php", "python", "ruby">>

EXEC_LANG_FILE_TYPES ==
  << <<"bash", "bash">>, <<"perl", "pl">>, <<"php", "php">>,
     <<"python", "py">>, <<"ruby", "rb">>, <<"sh", "bash">> >>

(***************************************************************************)
(* The identifier LANG_NAMES, which getExecutableType reads, has no        *)
(* declaration in the file: evaluating it throws a ReferenceError.         *)
(***************************************************************************)
LANG_NAMES == Throw("ReferenceError")

(***************************************************************************)
(* String.prototype.split with a non-empty string separator: the pieces    *)
(* between the non-overlapping occurrences of d, found left to right.      *)
(***************************************************************************)
RECURSIVE SplitFrom(_, _, _, _)
SplitFrom(s, d, start, i) ==
  IF i + Len(d) - 1 > Len(s)
  THEN <<SubSeq(s, start, Len(s))>>
  ELSE IF SubSeq(s, i, i + Len(d) - 1) = d
       THEN <<SubSeq(s, start, i - 1)>> \o SplitFrom(s, d, i + Len(d), i + Len(d))
       ELSE SplitFrom(s, d, start, i + 1)

Split(s, d) == SplitFrom(s, d, 1, 1)

(***************************************************************************)
(* String.prototype.split with the regular expression /\s/: every single   *)
(* white-space character separates two pieces.                             *)
(***************************************************************************)
WhiteSpace == {" ", "\t"}

RECURSIVE SplitWsFrom(_, _, _)
SplitWsFrom(s, start, i) ==
  IF i > Len(s)
  THEN <<SubSeq(s, start, Len(s))>>
  ELSE IF SubSeq(s, i, i) \in WhiteSpace
       THEN <<SubSeq(s, start, i - 1)>> \o SplitWsFrom(s, i + 1, i + 1)
       ELSE SplitWsFrom(s, start, i + 1)

SplitWs(s) == SplitWsFrom(s, 1, 1)

(***************************************************************************)
(* Utils.                                                                  *)
(***************************************************************************)
\* !!(value) of a string, null or undefined
toBool(value) == value \notin {Null, Undefined, ""}

\* Utils.toArray with a string delimiter; value is a string, null or undefined
toArray(value, delimiter) ==
  IF value \in {Null, Undefined}
  THEN Throw("TypeError")
  ELSE Ok(Split(value, delimiter))

\* Utils.inArray on an array haystack
inArray(needle, haystack) == \E i \in 1..Len(haystack) : haystack[i] = needle

\* Utils.getKeys / Utils.getValues of an object literal
getKeys(obj) == [i \in 1..Len(obj) |-> obj[i][1]]
getValues(obj) == [i \in 1..Len(obj) |-> obj[i][2]]

\* Utils.getLastIndex of an array (a JavaScript index, 0-based)
getLastIndex(arr) == IF Len(arr) > 0 THEN Len(arr) - 1 ELSE 0

\* arr[i] for a JavaScript index i
At(arr, i) == IF i + 1 \in 1..Len(arr) THEN arr[i + 1] ELSE Undefined

\* obj[key] for an object literal whose values are strings
Get(obj, key) ==
  IF \E i \in 1..Len(obj) : obj[i][1] = key
  THEN obj[CHOOSE i \in 1..Len(obj) : obj[i][1] = key][2]
  ELSE Undefined

\* obj[key] for an object literal whose values are arrays; key is a key of obj
GetArray(obj, key) == obj[CHOOSE i \in 1..Len(obj) : obj[i][1] = key][2]

(***************************************************************************)
(* Utils methods on any JavaScript value.  A value is the record of what   *)
(* the methods observe of it: type is `typeof value`, array is             *)
(* `value instanceof Array`, str is `'' + value`, elems are the elements   *)
(* of an array.  toArray, inArray and getLastIndex above are these methods *)
(* on the arguments Syntax hands them.                                     *)
(***************************************************************************)
JsString(s) == [type |-> "string", array |-> FALSE, str |-> s, elems |-> <<>>]
JsNumber(digits) == [type |-> "number", array |-> FALSE, str |-> digits, elems |-> <<>>]
JsBoolean(word) == [type |-> "boolean", array |-> FALSE, str |-> word, elems |-> <<>>]
JsUndefined == [type |-> "undefined", array |-> FALSE, str |-> "undefined", elems |-> <<>>]
JsNull == [type |-> "object", array |-> FALSE, str |-> "null", elems |-> <<>>]
JsObject == [type |-> "object", array |-> FALSE, str |-> "[object Object]", elems |-> <<>>]
JsFunction == [type |-> "function", array |-> FALSE, str |-> "function () {}", elems |-> <<>>]

RECURSIVE Join(_)
Join(elems) ==
  IF elems = <<>> THEN ""
  ELSE IF Len(elems) = 1 THEN elems[1]
  ELSE elems[1] \o "," \o Join(Tail(elems))

JsArray(elems) == [type |-> "object", array |-> TRUE, str |-> Join(elems), elems |-> elems]

getType(arg) == arg.type
toString(value) == value.str
isArray(arr) == arr.array

\* Utils.toArray accepting every scalar, as its @param says, booleans included
Utils_toArray_AnyScalar(value, delimiter) ==
  IF getType(value) \notin {"string", "number", "boolean"}
  THEN Throw("TypeError")
  ELSE Ok(Split(toString(value), delimiter))

\* Utils.toArray with a non-empty string delimiter
Utils_toArray(value, delimiter) ==
  IF getType(value) # "string" /\ getType(value) # "number"
  THEN Throw("TypeError")
  ELSE Ok(Split(toString(value), delimiter))

Utils_inArray(needle, haystack) ==
  IF ~isArray(haystack)
  THEN Throw("TypeError")
  ELSE Ok(inArray(needle, haystack.elems))

Utils_getLastIndex(arr) ==
  IF ~isArray(arr)
  THEN Throw("TypeError")
  ELSE Ok(getLastIndex(arr.elems))

(***************************************************************************)
(* The page the script runs on, and what it has done there.                *)
(*   queryString  document.location.search                                 *)
(*   fslocText    text of the first '.page_body .pre' element ("" if none) *)
(*   numBlocks    number of 'div.pre' blocks; gitweb prints one '.linenr'  *)
(*                anchor in each                                           *)
(*   tables       the five tables declared at the top of the file          *)
(*   runs         one record per completed run of the ready handler        *)
(*   utilCalls    one record per call of a Utils method made from outside  *)
(*                the ready handler                                        *)
(***************************************************************************)
VARIABLES queryString, fslocText, numBlocks, tables, runs, utilCalls

vars == <<queryString, fslocText, numBlocks, tables, runs, utilCalls>>

(***************************************************************************)
(* Calls made on the collaborators, in the order they are made.            *)
(***************************************************************************)
Configure(languages) == [fn |-> "hljs.configure", languages |-> languages, index |-> 0]
HighlightBlock(i) == [fn |-> "hljs.highlightBlock", languages |-> <<>>, index |-> i]
ResetColor(i) == [fn |-> "linenr.css", languages |-> <<>>, index |-> i]

\* What one run of the ready handler did: how it ended ("noop": it returned
\* without a call; "highlighted": it ran to the end of highlightSyntax; else the
\* name of the error it threw), the collaborator calls it made, and whether it
\* called highlightSyntax.
Run(outcome, calls) == [outcome |-> outcome, calls |-> calls, entered |-> TRUE]
NotABlob == [outcome |-> "noop", calls |-> <<>>, entered |-> FALSE]

(***************************************************************************)
(* Syntax methods.                                                         *)
(***************************************************************************)
\* isFileBlob looking for ';a=' alone: any action would count as a blob view
isFileBlob_AnyAction(qs) ==
  LET parts == toArray(qs, ";a=")
  IN  IF ~parts.ok THEN parts ELSE Ok(getLastIndex(parts.val) # 0)

isFileBlob(qs) ==
  LET parts == toArray(qs, ";a=blob")
  IN  IF ~parts.ok THEN parts ELSE Ok(getLastIndex(parts.val) # 0)

\* getFileTypeAssocations dropping the result of concat (Array.prototype.concat
\* returns a new array and leaves fileTypes as it was)
getFileTypeAssocations_ConcatDropped(fileType) == <<fileType>>

\* getFileTypeAssocations appending the type to its associates
getFileTypeAssocations_TypeLast(fileType) ==
  LET fileTypes == <<fileType>>
      keys == getKeys(tables.FILE_TYPE_ASSOCIATIONS)
  IN  IF ~inArray(fileType, keys)
      THEN fileTypes
      ELSE GetArray(tables.FILE_TYPE_ASSOCIATIONS, fileType) \o fileTypes

getFileTypeAssocations(fileType) ==
  LET fileTypes == <<fileType>>
      keys == getKeys(tables.FILE_TYPE_ASSOCIATIONS)
  IN  IF ~inArray(fileType, keys)
      THEN fileTypes
      ELSE fileTypes \o GetArray(tables.FILE_TYPE_ASSOCIATIONS, fileType)

\* getPrimaryFileType with the loop bound one short: the last key is never tried
getPrimaryFileType_LoopOneShort(fileType) ==
  LET syn == tables.LANG_FILE_TYPE_SYNONYMS
      hits == {i \in 1..(Len(syn) - 1) : inArray(fileType, syn[i][2])}
  IN  IF hits = {}
      THEN Null
      ELSE syn[CHOOSE i \in hits : \A j \in hits : i <= j][1]

getPrimaryFileType(fileType) ==
  LET syn == tables.LANG_FILE_TYPE_SYNONYMS
      hits == {i \in 1..Len(syn) : inArray(fileType, syn[i][2])}
  IN  IF hits = {}
      THEN Null
      ELSE syn[CHOOSE i \in hits : \A j \in hits : i <= j][1]

isSynonymFileType(fileType) ==
  LET syn == tables.LANG_FILE_TYPE_SYNONYMS
  IN  \E i \in 1..Len(syn) : inArray(fileType, syn[i][2])

\* this.inArray(needle, <identifier>): the identifier is evaluated first
inArrayRef(needle, ref) == IF ~ref.ok THEN ref ELSE Ok(inArray(needle, ref.val))

\* the target getExecutableType parses: the second piece of the first line split
\* at the marker, undefined when there is no marker
targetPath(text) == At(Split(text, SHEBANG), 1)

getExecutableType(text) ==
  LET components == toArray(targetPath(text), "/")
  IN  IF ~components.ok THEN components
      ELSE
      LET executable == At(components.val, getLastIndex(components.val))
          flagOptions == SplitWs(executable)   \* executable is a string here
          hasOptions == getLastIndex(flagOptions) # 0
          noOpts == IF ~hasOptions THEN inArrayRef(executable, LANG_NAMES) ELSE Ok(FALSE)
          direct == IF hasOptions THEN inArrayRef(At(flagOptions, 0), LANG_NAMES) ELSE Ok(FALSE)
          viaEnv == IF hasOptions THEN inArrayRef(At(flagOptions, 1), LANG_NAMES) ELSE Ok(FALSE)
      IN  IF ~noOpts.ok THEN noOpts
          ELSE IF noOpts.val THEN Ok(executable)
          ELSE IF ~direct.ok THEN direct
          ELSE IF direct.val THEN Ok(At(flagOptions, 0))
          ELSE IF ~viaEnv.ok THEN viaEnv
          ELSE IF viaEnv.val THEN Ok(At(flagOptions, 1))
          ELSE Ok(Null)

\* isExecutable answering true for every first line
isExecutable_Always(text) == TRUE

\* isExecutable looking for the marker at the start of the line only
isExecutable_PrefixOnly(text) ==
  Len(text) >= Len(SHEBANG) /\ SubSeq(text, 1, Len(SHEBANG)) = SHEBANG

isExecutable(text) == getLastIndex(Split(text, SHEBANG)) # 0

\* isValidFileType with the condition negated away: every token passes
isValidFileType_EveryToken(fileType, text) == Ok(TRUE)

isValidFileType(fileType, text) ==
  LET keys == getKeys(tables.LANG_PRIMARY_FILE_TYPES)
  IN  IF inArray(fileType, keys) \/ isSynonymFileType(fileType)
      THEN Ok(TRUE)
      ELSE IF ~isExecutable(text)
      THEN Ok(FALSE)
      ELSE LET exec == getExecutableType(text)
           IN  IF ~exec.ok THEN exec ELSE Ok(toBool(exec.val))

\* fileTypeOf taking what follows the first '.' of the file name, nothing when
\* the name has no '.'
fileTypeOf_ExtensionOnly(queryParams) ==
  LET pathName == Split(Split(queryParams[2], ";")[1], "/")
      fileName == Split(At(pathName, getLastIndex(pathName)), ".")
  IN  IF Len(fileName) < 2 THEN "" ELSE At(fileName, getLastIndex(fileName))

\* fileTypeOf reading the last ';f=' field instead of the first
fileTypeOf_LastFileParam(queryParams) ==
  LET pathName == Split(Split(queryParams[Len(queryParams)], ";")[1], "/")
      fileName == Split(At(pathName, getLastIndex(pathName)), ".")
  IN  At(fileName, getLastIndex(fileName))

\* the token highlightSyntax looks up: queryParams is the identifier split at ';f='
fileTypeOf(queryParams) ==
  LET pathName == Split(Split(queryParams[2], ";")[1], "/")
      fileName == Split(At(pathName, getLastIndex(pathName)), ".")
  IN  At(fileName, getLastIndex(fileName))

\* highlightSyntax resetting the line-number color inside the loop over the
\* blocks, after each block instead of after all of them
highlightCalls_ResetPerBlock(fileType, n) ==
  LET perBlock == [k \in 1..(2 * n) |->
                     IF k % 2 = 1 THEN HighlightBlock((k + 1) \div 2)
                     ELSE ResetColor(k \div 2)]
  IN  <<Configure(getFileTypeAssocations(fileType))>> \o perBlock

\* the calls highlightSyntax makes once the file type is settled
highlightCalls(fileType, n) ==
  <<Configure(getFileTypeAssocations(fileType))>>
    \o [i \in 1..n |-> HighlightBlock(i)]
    \o [i \in 1..n |-> ResetColor(i)]

\* finalFileType looking every token up in the synonym table, canonical or not
finalFileType_AlwaysLookedUp(fileType, text) ==
  IF isExecutable(text)
  THEN LET exec == getExecutableType(text)
       IN  IF ~exec.ok THEN exec ELSE Ok(Get(tables.EXEC_LANG_FILE_TYPES, exec.val))
  ELSE Ok(getPrimaryFileType(fileType))

\* the file type highlightSyntax settles on for a valid token
finalFileType(fileType, text) ==
  IF isExecutable(text)
  THEN LET exec == getExecutableType(text)
       IN  IF ~exec.ok THEN exec ELSE Ok(Get(tables.EXEC_LANG_FILE_TYPES, exec.val))
  ELSE IF ~inArray(fileType, getKeys(tables.LANG_PRIMARY_FILE_TYPES))
  THEN Ok(getPrimaryFileType(fileType))
  ELSE Ok(fileType)

\* highlightSyntax without the early return of lines 567-569: on a page without
\* ';f=' queryParams[1] is undefined and the toArray of line 571 throws
highlightSyntax_NoFileParamCheck(qs, text, n) ==
  LET queryParams == Split(qs, ";f=")
  IN  IF At(queryParams, 1) = Undefined THEN Run(toArray(Undefined, ";").val, <<>>)
      ELSE
      LET fileType == fileTypeOf(queryParams)
          valid == isValidFileType(fileType, text)
          final == finalFileType(fileType, text)
      IN  IF ~valid.ok THEN Run(valid.val, <<>>)
          ELSE IF ~valid.val THEN Run("noop", <<>>)
          ELSE IF ~final.ok THEN Run(final.val, <<>>)
          ELSE Run("highlighted", highlightCalls(final.val, n))

highlightSyntax(qs, text, n) ==
  LET queryParams == Split(qs, ";f=")
      lastIndex == getLastIndex(queryParams)
  IN  IF lastIndex = 0 THEN Run("noop", <<>>)
      ELSE
      LET fileType == fileTypeOf(queryParams)
          valid == isValidFileType(fileType, text)
          final == finalFileType(fileType, text)
      IN  IF ~valid.ok THEN Run(valid.val, <<>>)
          ELSE IF ~valid.val THEN Run("noop", <<>>)
          ELSE IF ~final.ok THEN Run(final.val, <<>>)
          ELSE Run("highlighted", highlightCalls(final.val, n))

onReady(qs, text, n) ==
  LET blob == isFileBlob(qs)
  IN  IF ~blob.ok THEN [outcome |-> blob.val, calls |-> <<>>, entered |-> FALSE]
      ELSE IF ~(qs # "" /\ blob.val) THEN NotABlob
      ELSE highlightSyntax(qs, text, n)

(***************************************************************************)
(* The pages of the model.                                                 *)
(***************************************************************************)
MaxBlocks == 2
MaxRuns == 2

Range(seq) == {seq[i] : i \in 1..Len(seq)}

SynonymTokens == UNION {Range(LANG_FILE_TYPE_SYNONYMS[i][2]) : i \in 1..Len(LANG_FILE_TYPE_SYNONYMS)}

\* file-name extensions: every token of the tables, and some of none
Extensions ==
  Range(getKeys(LANG_PRIMARY_FILE_TYPES)) \cup Range(getValues(LANG_PRIMARY_FILE_TYPES))
    \cup SynonymTokens \cup Range(getKeys(FILE_TYPE_ASSOCIATIONS))
    \cup {"txt", "htaccess", "xslt"}

FileNames == {"app." \o e : e \in Extensions} \cup {"", "Makefile", "perl", "a.tar.h"}

Directories == {"", "lib/"}

Trailers == {"", ";hb=HEAD;f=x.c"}

FileParams == {""} \cup {";f=" \o d \o f \o t : d \in Directories, f \in FileNames, t \in Trailers}

Heads == {"", "?p=repo.git", "?p=repo.git;a=tree", ";a=blob"}

PageIdentifiers ==
  {h \o f : h \in Heads, f \in FileParams}
    \cup {";a=blob;f=src/main.c", "?p=repo.git;a=blob;hb=HEAD"}

FirstLines ==
  {"", "no shebang here", "#!/bin/bash", "#!/bin/sh", "#!/usr/bin/perl -w",
   "#!/usr/bin/env python -c", "#!/usr/bin/env  python", "#!/usr/bin/env node",
   "#!/usr/bin/php", "#!/usr/bin/go run", "#!/usr/local/bin/tclsh",
   "exec ruby #!/usr/bin/ruby", "#!/bin/bash#!/usr/bin/perl",
   "#!/usr/bin/perl python"}

Init ==
  /\ queryString \in PageIdentifiers
  /\ fslocText \in FirstLines
  /\ numBlocks \in 0..MaxBlocks
  /\ fslocText # "" => numBlocks >= 1
  /\ tables = [LANG_PRIMARY_FILE_TYPES |-> LANG_PRIMARY_FILE_TYPES,
               LANG_FILE_TYPE_SYNONYMS |-> LANG_FILE_TYPE_SYNONYMS,
               FILE_TYPE_ASSOCIATIONS |-> FILE_TYPE_ASSOCIATIONS,
               EXEC_LANG_NAMES |-> EXEC_LANG_NAMES,
               EXEC_LANG_FILE_TYPES |-> EXEC_LANG_FILE_TYPES]
  /\ runs = <<>>
  /\ utilCalls = <<>>

\* The ready handler with getFileTypeAssocations written as
\*   fileTypes = FILE_TYPE_ASSOCIATIONS[fileType]; fileTypes.unshift(fileType);
\* the array returned is the table's own, which grows with every run
OnReady_SharedArray ==
  /\ Len(runs) < MaxRuns
  /\ LET run == onReady(queryString, fslocText, numBlocks)
         assocs == tables.FILE_TYPE_ASSOCIATIONS
     IN  /\ runs' = Append(runs, run)
         /\ tables' =
              IF run.calls = <<>>
              THEN tables
              ELSE [tables EXCEPT !.FILE_TYPE_ASSOCIATIONS =
                      [i \in 1..Len(assocs) |->
                         IF assocs[i][1] = run.calls[1].languages[1]
                         THEN <<assocs[i][1], run.calls[1].languages>>
                         ELSE assocs[i]]]
  /\ UNCHANGED <<queryString, fslocText, numBlocks, utilCalls>>

(***************************************************************************)
(* The ready handler runs on the page.                                     *)
(***************************************************************************)
OnReady ==
  /\ Len(runs) < MaxRuns
  /\ runs' = Append(runs, onReady(queryString, fslocText, numBlocks))
  /\ UNCHANGED <<queryString, fslocText, numBlocks, tables, utilCalls>>

Next == OnReady

Spec == Init /\ [][Next]_vars

(***************************************************************************)
(* The Utils methods called on their own, with arguments of every type.    *)
(***************************************************************************)
MaxCalls == 2

StringValues == {JsString(""), JsString("lib/app.c"), JsString("#!/bin/bash")}
NumberValues == {JsNumber("0"), JsNumber("42"), JsNumber("NaN")}
ArrayValues == {JsArray(<<>>), JsArray(<<"c">>), JsArray(<<"bash", "c", "cpp">>)}
OtherValues ==
  {JsBoolean("true"), JsBoolean("false"), JsUndefined, JsNull, JsObject, JsFunction}

Values == StringValues \cup NumberValues \cup ArrayValues \cup OtherValues

Delimiters == {"/", SHEBANG}
Needles == {"c", "py"}

UtilCall(fn, value, result) == [fn |-> fn, value |-> value, result |-> result]

UtilsInit ==
  /\ queryString = ""
  /\ fslocText = ""
  /\ numBlocks = 0
  /\ tables = [LANG_PRIMARY_FILE_TYPES |-> LANG_PRIMARY_FILE_TYPES,
               LANG_FILE_TYPE_SYNONYMS |-> LANG_FILE_TYPE_SYNONYMS,
               FILE_TYPE_ASSOCIATIONS |-> FILE_TYPE_ASSOCIATIONS,
               EXEC_LANG_NAMES |-> EXEC_LANG_NAMES,
               EXEC_LANG_FILE_TYPES |-> EXEC_LANG_FILE_TYPES]
  /\ runs = <<>>
  /\ utilCalls = <<>>

ToArray ==
  /\ Len(utilCalls) < MaxCalls
  /\ \E value \in Values, delimiter \in Delimiters :
       utilCalls' = Append(utilCalls,
                           UtilCall("toArray", value, Utils_toArray(value, delimiter)))
  /\ UNCHANGED <<queryString, fslocText, numBlocks, tables, runs>>

InArray ==
  /\ Len(utilCalls) < MaxCalls
  /\ \E needle \in Needles, haystack \in Values :
       utilCalls' = Append(utilCalls,
                           UtilCall("inArray", haystack, Utils_inArray(needle, haystack)))
  /\ UNCHANGED <<queryString, fslocText, numBlocks, tables, runs>>

GetLastIndex ==
  /\ Len(utilCalls) < MaxCalls
  /\ \E arr \in Values :
       utilCalls' = Append(utilCalls,
                           UtilCall("getLastIndex", arr, Utils_getLastIndex(arr)))
  /\ UNCHANGED <<queryString, fslocText, numBlocks, tables, runs>>

UtilsNext == ToArray \/ InArray \/ GetLastIndex

UtilsSpec == UtilsInit /\ [][UtilsNext]_vars

(***************************************************************************)
(* Vocabulary of the properties.                                           *)
(***************************************************************************)
\* d occurs in s
Contains(s, d) == \E i \in 1..(Len(s) - Len(d) + 1) : SubSeq(s, i, i + Len(d) - 1) = d

\* a blob page that names a file: the pages on which a file type is looked up
IsBlobFile(qs) == Contains(qs, ";a=blob") /\ Contains(qs, ";f=")

\* the first line has no shebang marker
NoShebang(text) == ~Contains(text, SHEBANG)

\* the extension token of the page's file
Token(qs) == fileTypeOf(Split(qs, ";f="))

\* the canonical types path resolution accepts as they are
CanonicalTypes == Range(getKeys(LANG_PRIMARY_FILE_TYPES))

\* the keys of the synonym table whose synonym set holds the token
SynonymKeysOf(token) ==
  {i \in 1..Len(LANG_FILE_TYPE_SYNONYMS) : token \in Range(LANG_FILE_TYPE_SYNONYMS[i][2])}

\* the type the path resolves to, Null if none
PathType(qs) ==
  IF Token(qs) \in CanonicalTypes THEN Token(qs)
  ELSE IF SynonymKeysOf(Token(qs)) = {} THEN Null
  ELSE LANG_FILE_TYPE_SYNONYMS[CHOOSE i \in SynonymKeysOf(Token(qs)) :
                                 \A j \in SynonymKeysOf(Token(qs)) : i <= j][1]

\* the shebang target: the last '/'-segment of the text after the first marker
ShebangTarget(text) ==
  LET segments == Split(Split(text, SHEBANG)[2], "/") IN segments[Len(segments)]

\* the interpreter a shebang names: the first token of the target if it is a
\* recognized language name, else the second if that one is, else Null
ShebangName(text) ==
  LET tokens == SplitWs(ShebangTarget(text))
  IN  IF tokens[1] \in Range(EXEC_LANG_NAMES) THEN tokens[1]
      ELSE IF Len(tokens) >= 2 /\ tokens[2] \in Range(EXEC_LANG_NAMES) THEN tokens[2]
      ELSE Null

\* the type the first line resolves to: Null without a marker or without a
\* recognized interpreter, Undefined for an interpreter the executable table
\* does not map
ShebangType(text) ==
  IF NoShebang(text) \/ ShebangName(text) = Null THEN Null
  ELSE Get(EXEC_LANG_FILE_TYPES, ShebangName(text))

\* the run called hljs.configure first of all, with these languages
ConfiguredWith(run, languages) ==
  /\ run.outcome = "highlighted"
  /\ run.calls # <<>>
  /\ run.calls[1] = Configure(languages)

\* the run made no call and raised no error
SilentNoOp(run) == run.outcome = "noop" /\ run.calls = <<>>

Completed == {runs[r] : r \in 1..Len(runs)}

(***************************************************************************)
(* C1: whenever the first line holds a shebang that resolves to a type,    *)
(* the languages handed to hljs.configure are the expansion of that type,  *)
(* whatever the path's extension resolves to.                              *)
(***************************************************************************)
C1_ShebangOverridesExtension ==
  \A run \in Completed :
    (IsBlobFile(queryString) /\ ShebangType(fslocText) \notin {Null, Undefined})
      => ConfiguredWith(run, getFileTypeAssocations(ShebangType(fslocText)))

(***************************************************************************)
(* C2: whenever the first line resolves to no type (no marker, or a marker *)
(* with an unrecognized interpreter) and the path resolves to a type, the  *)
(* highlighter receives the expansion of the path's type.                  *)
(***************************************************************************)
C2_PathTypeWithoutShebangType ==
  \A run \in Completed :
    (IsBlobFile(queryString) /\ ShebangType(fslocText) = Null
       /\ PathType(queryString) # Null)
      => ConfiguredWith(run, getFileTypeAssocations(PathType(queryString)))

(***************************************************************************)
(* C3: every language hljs.configure receives is a defined type, and a run *)
(* in which neither the path nor the first line resolves to a type is a    *)
(* no-op without a highlighter call.                                       *)
(***************************************************************************)
C3_OnlyDefinedTypesConfigured ==
  \A run \in Completed :
    /\ \A i \in 1..Len(run.calls) :
         \A k \in 1..Len(run.calls[i].languages) :
           run.calls[i].languages[k] \notin {Null, Undefined}
    /\ (IsBlobFile(queryString) /\ PathType(queryString) = Null
          /\ ShebangType(fslocText) \in {Null, Undefined})
         => SilentNoOp(run)

(***************************************************************************)
(* C4: no run of the ready handler throws: each ends in a highlighter      *)
(* invocation or in a silent no-op.                                        *)
(***************************************************************************)
C4_NeverThrows ==
  \A run \in Completed : run.outcome \in {"highlighted", "noop"}

(***************************************************************************)
(* C5: on a blob page without a shebang whose file path ends in '.s', s a  *)
(* token of the synonym set of key t, the file is highlighted as t: t is   *)
(* the primary entry of the languages list.                                *)
(***************************************************************************)
C5_SynonymResolvesToItsKey ==
  \A run \in Completed :
    \A i \in 1..Len(LANG_FILE_TYPE_SYNONYMS) :
      (IsBlobFile(queryString) /\ NoShebang(fslocText)
         /\ Token(queryString) \in Range(LANG_FILE_TYPE_SYNONYMS[i][2]))
        => /\ run.outcome = "highlighted"
           /\ run.calls # <<>>
           /\ run.calls[1].fn = "hljs.configure"
           /\ run.calls[1].languages[1] = LANG_FILE_TYPE_SYNONYMS[i][1]

\* lib/app.erb, no shebang, has been highlighted as ruby
C5_Witness ==
  /\ queryString = ";a=blob;f=lib/app.erb"
  /\ fslocText = ""
  /\ runs # <<>>
  /\ runs[1].calls # <<>>
  /\ runs[1].calls[1].languages[1] = "ruby"

(***************************************************************************)
(* C6: on a blob page without a shebang whose file path ends in the        *)
(* primary file type of a language of the primary-file-type table (c, cpp, *)
(* css, html, js, pl, php, rb, ...), the type resolves and the highlighter *)
(* is invoked.                                                             *)
(***************************************************************************)
C6_PrimaryFileTypesAreHighlighted ==
  \A run \in Completed :
    (IsBlobFile(queryString) /\ NoShebang(fslocText)
       /\ Token(queryString) \in Range(getValues(LANG_PRIMARY_FILE_TYPES)))
      => /\ run.outcome = "highlighted"
         /\ run.calls # <<>>
         /\ run.calls[1].fn = "hljs.configure"
         /\ run.calls[1].languages[1] \notin {Null, Undefined}

(***************************************************************************)
(* C7: without a shebang, a token that is itself a canonical type is the   *)
(* final type unchanged; a token that is not canonical and is a synonym    *)
(* becomes the first key of the synonym table whose set contains it.       *)
(***************************************************************************)
C7_CanonicalTokenUnchanged ==
  \A run \in Completed :
    (IsBlobFile(queryString) /\ NoShebang(fslocText))
      => /\ Token(queryString) \in CanonicalTypes
              => /\ run.calls # <<>>
                 /\ run.calls[1].fn = "hljs.configure"
                 /\ run.calls[1].languages[1] = Token(queryString)
         /\ (Token(queryString) \notin CanonicalTypes
               /\ SynonymKeysOf(Token(queryString)) # {})
              => /\ run.calls # <<>>
                 /\ run.calls[1].fn = "hljs.configure"
                 /\ \E i \in SynonymKeysOf(Token(queryString)) :
                      /\ \A j \in SynonymKeysOf(Token(queryString)) : i <= j
                      /\ run.calls[1].languages[1] = LANG_FILE_TYPE_SYNONYMS[i][1]

\* lib/app.c has run: 'c', canonical and in no synonym set, stayed c
C7_Witness ==
  /\ queryString = ";a=blob;f=lib/app.c"
  /\ NoShebang(fslocText)
  /\ runs # <<>>
  /\ runs[1].calls # <<>>
  /\ runs[1].calls[1].languages = <<"c">>

(***************************************************************************)
(* C8: without a shebang, a token that is neither a canonical type nor a   *)
(* member of a synonym set makes the run a no-op: no highlighter call.     *)
(***************************************************************************)
C8_UnknownTokenIsNoOp ==
  \A run \in Completed :
    (IsBlobFile(queryString) /\ NoShebang(fslocText)
       /\ Token(queryString) \notin CanonicalTypes
       /\ SynonymKeysOf(Token(queryString)) = {})
      => SilentNoOp(run)

\* app.txt, no shebang, has run
C8_Witness ==
  /\ queryString = ";a=blob;f=app.txt"
  /\ fslocText = "no shebang here"
  /\ runs # <<>>
  /\ runs[1].entered
  /\ SilentNoOp(runs[1])

(***************************************************************************)
(* C9: for the identifier ';a=blob;f=lib/app.php5' and a first line        *)
(* without a shebang, hljs.configure receives exactly php, css, html, js.  *)
(***************************************************************************)
C9_Php5EndToEnd ==
  \A run \in Completed :
    (queryString = ";a=blob;f=lib/app.php5" /\ NoShebang(fslocText))
      => ConfiguredWith(run, <<"php", "css", "html", "js">>)

\* that page has run
C9_Witness ==
  /\ queryString = ";a=blob;f=lib/app.php5"
  /\ fslocText = ""
  /\ runs # <<>>
  /\ runs[1].calls # <<>>

(***************************************************************************)
(* C10: if the page identifier is empty or lacks the blob marker, the      *)
(* ready handler ends without calling highlightSyntax, hljs.configure or   *)
(* hljs.highlightBlock and without an error.                               *)
(***************************************************************************)
C10_NonBlobPageIsNoOp ==
  \A run \in Completed :
    (queryString = "" \/ ~Contains(queryString, ";a=blob"))
      => (SilentNoOp(run) /\ ~run.entered)

\* a tree page naming a file of a known type, under a shebang line, has run
C10_Witness ==
  /\ queryString = "?p=repo.git;a=tree;f=lib/app.c"
  /\ fslocText = "#!/bin/bash"
  /\ runs # <<>>
  /\ ~runs[1].entered

(***************************************************************************)
(* C11: isFileBlob answers true exactly for the identifiers that are not   *)
(* empty and contain ';a=blob': false for '', true for                     *)
(* ';a=blob;f=src/main.c'.  The ready handler enters highlightSyntax on    *)
(* exactly those pages.                                                    *)
(***************************************************************************)
C11_IsFileBlobIffMarker ==
  /\ isFileBlob(queryString)
       = Ok(queryString # "" /\ Contains(queryString, ";a=blob"))
  /\ isFileBlob("") = Ok(FALSE)
  /\ isFileBlob(";a=blob;f=src/main.c") = Ok(TRUE)
  /\ \A run \in Completed :
       run.entered <=> (queryString # "" /\ Contains(queryString, ";a=blob"))

\* the handler has run on ';a=blob;f=src/main.c' and entered highlightSyntax
C11_Witness ==
  /\ queryString = ";a=blob;f=src/main.c"
  /\ runs # <<>>
  /\ runs[1].entered

\* the white-space separated tokens of the shebang target
ShebangTokens(text) == SplitWs(ShebangTarget(text))

(***************************************************************************)
(* C12: when the first token of the shebang target is a recognized         *)
(* language name, alone ('bash') or followed by options ('perl -w'),       *)
(* shebang resolution returns that name and the final type is the type     *)
(* the executable table maps it to.                                        *)
(***************************************************************************)
C12_FirstTokenRecognized ==
  (runs # <<>> /\ IsBlobFile(queryString) /\ ~NoShebang(fslocText)
     /\ ShebangTokens(fslocText)[1] \in Range(EXEC_LANG_NAMES))
    => /\ getExecutableType(fslocText) = Ok(ShebangTokens(fslocText)[1])
       /\ finalFileType(Token(queryString), fslocText)
            = Ok(Get(EXEC_LANG_FILE_TYPES, ShebangTokens(fslocText)[1]))

(***************************************************************************)
(* C13: when the first token of the shebang target is not recognized and   *)
(* the second is ('env python -c'), shebang resolution returns the second  *)
(* token's type; a recognized first token takes priority over the second.  *)
(***************************************************************************)
C13_SecondTokenRecognized ==
  (runs # <<>> /\ IsBlobFile(queryString) /\ ~NoShebang(fslocText)
     /\ Len(ShebangTokens(fslocText)) >= 2
     /\ ShebangTokens(fslocText)[2] \in Range(EXEC_LANG_NAMES))
    => LET name == IF ShebangTokens(fslocText)[1] \in Range(EXEC_LANG_NAMES)
                   THEN ShebangTokens(fslocText)[1]
                   ELSE ShebangTokens(fslocText)[2]
       IN  /\ getExecutableType(fslocText) = Ok(name)
           /\ finalFileType(Token(queryString), fslocText)
                = Ok(Get(EXEC_LANG_FILE_TYPES, name))

(***************************************************************************)
(* C14: when the first line has no shebang marker, the shebang yields no   *)
(* type and no error: isExecutable is false, no run throws, and the        *)
(* outcome is the one the path alone decides.                              *)
(***************************************************************************)
C14_NoMarkerNoOverride ==
  NoShebang(fslocText)
    => /\ ~isExecutable(fslocText)
       /\ \A run \in Completed :
            /\ run.outcome \in {"highlighted", "noop"}
            /\ IsBlobFile(queryString)
                 => IF PathType(queryString) = Null
                    THEN SilentNoOp(run)
                    ELSE ConfiguredWith(run, getFileTypeAssocations(PathType(queryString)))

\* lib/app.c under the first line 'no shebang here' was highlighted as c
C14_Witness ==
  /\ queryString = ";a=blob;f=lib/app.c"
  /\ fslocText = "no shebang here"
  /\ runs # <<>>
  /\ ConfiguredWith(runs[1], <<"c">>)

(***************************************************************************)
(* C15: when the first line has a shebang marker and neither the first nor *)
(* the second token of the target is a recognized language name, shebang   *)
(* resolution returns null.                                                *)
(***************************************************************************)
C15_UnrecognizedInterpreterIsNull ==
  (runs # <<>> /\ IsBlobFile(queryString) /\ ~NoShebang(fslocText)
     /\ ShebangName(fslocText) = Null)
    => getExecutableType(fslocText) = Ok(Null)

\* the types expand is applied to: every token of the tables
Types == Extensions \cup Range(getValues(EXEC_LANG_FILE_TYPES))

\* the type followed by its associates as the association table declares them
Expansion(t) ==
  IF \E i \in 1..Len(FILE_TYPE_ASSOCIATIONS) : FILE_TYPE_ASSOCIATIONS[i][1] = t
  THEN <<t>> \o FILE_TYPE_ASSOCIATIONS[CHOOSE i \in 1..Len(FILE_TYPE_ASSOCIATIONS) :
                                        FILE_TYPE_ASSOCIATIONS[i][1] = t][2]
  ELSE <<t>>

(***************************************************************************)
(* C16: getFileTypeAssocations(t) has length >= 1 and starts with t; for a *)
(* key of the association table the rest is exactly the key's associates   *)
(* in declared order, and for any other type the result is <<t>>           *)
(* (expand('c') = ['c']).  Every languages list configured is such an      *)
(* expansion.                                                              *)
(***************************************************************************)
C16_ExpandIsTypeThenAssociates ==
  /\ \A t \in Types :
       /\ Len(getFileTypeAssocations(t)) >= 1
       /\ getFileTypeAssocations(t)[1] = t
       /\ getFileTypeAssocations(t) = Expansion(t)
  /\ getFileTypeAssocations("c") = <<"c">>
  /\ \A run \in Completed :
       run.calls # <<>>
         => /\ run.calls[1].languages[1] \in Types
            /\ run.calls[1].languages = Expansion(run.calls[1].languages[1])

\* lib/app.html was configured with html and its three associates in order
C16_Witness ==
  /\ queryString = ";a=blob;f=lib/app.html"
  /\ runs # <<>>
  /\ runs[1].calls # <<>>
  /\ runs[1].calls[1].languages = <<"html", "css", "js", "php">>

(***************************************************************************)
(* C17: running the pipeline twice on the same page identifier and first   *)
(* line gives the same outcome both times: the same calls with the same    *)
(* languages list, or a no-op both times.                                  *)
(***************************************************************************)
C17_RunsAreIdempotent ==
  \A i, j \in 1..Len(runs) : runs[i] = runs[j]

\* a page with a block has been highlighted twice
C17_Witness ==
  /\ Len(runs) >= 2
  /\ numBlocks >= 1
  /\ runs[1].outcome = "highlighted"
  /\ runs[2].outcome = "highlighted"

(***************************************************************************)
(* C18: no run modifies a table: after any number of runs each of the five *)
(* tables equals its declaration, the association entry that expand read   *)
(* included.                                                               *)
(***************************************************************************)
C18_TablesNeverChange ==
  /\ tables.LANG_PRIMARY_FILE_TYPES = LANG_PRIMARY_FILE_TYPES
  /\ tables.LANG_FILE_TYPE_SYNONYMS = LANG_FILE_TYPE_SYNONYMS
  /\ tables.FILE_TYPE_ASSOCIATIONS = FILE_TYPE_ASSOCIATIONS
  /\ tables.EXEC_LANG_NAMES = EXEC_LANG_NAMES
  /\ tables.EXEC_LANG_FILE_TYPES = EXEC_LANG_FILE_TYPES

\* expand has read php's association entry twice and the entry is as declared
C18_Witness ==
  /\ Len(runs) >= 2
  /\ ConfiguredWith(runs[2], <<"php", "css", "html", "js">>)
  /\ GetArray(tables.FILE_TYPE_ASSOCIATIONS, "php") = <<"css", "html", "js">>

(***************************************************************************)
(* C19: in the synonym table no token is in the synonym sets of two        *)
(* different keys, so getPrimaryFileType returns, for a token of a set,    *)
(* the one key that holds it, whatever the order of the keys.              *)
(***************************************************************************)
C19_SynonymSetsDisjoint ==
  LET syn == tables.LANG_FILE_TYPE_SYNONYMS
  IN  /\ \A i, j \in 1..Len(syn) :
           i # j => Range(syn[i][2]) \cap Range(syn[j][2]) = {}
      /\ \A i \in 1..Len(syn) :
           \A token \in Range(syn[i][2]) : getPrimaryFileType(token) = syn[i][1]

\* the scan has run for a synonym: lib/app.h was highlighted as c
C19_Witness ==
  /\ queryString = ";a=blob;f=lib/app.h"
  /\ runs # <<>>
  /\ ConfiguredWith(runs[1], <<"c">>)

\* the places where d occurs in s
Occurrences(s, d) == {i \in 1..(Len(s) - Len(d) + 1) : SubSeq(s, i, i + Len(d) - 1) = d}

\* s after the first d (d occurs in s)
AfterFirst(s, d) ==
  SubSeq(s, (CHOOSE i \in Occurrences(s, d) : \A j \in Occurrences(s, d) : i <= j) + Len(d),
         Len(s))

\* s up to the first d, all of s if there is none
BeforeFirst(s, d) ==
  IF Occurrences(s, d) = {} THEN s
  ELSE SubSeq(s, 1, (CHOOSE i \in Occurrences(s, d) : \A j \in Occurrences(s, d) : i <= j) - 1)

\* s after the last d, all of s if there is none
AfterLast(s, d) ==
  IF Occurrences(s, d) = {} THEN s
  ELSE SubSeq(s, (CHOOSE i \in Occurrences(s, d) : \A j \in Occurrences(s, d) : i >= j) + Len(d),
              Len(s))

\* the text after the first ';f=', cut at the next ';', then its last
\* '/'-segment, then the last '.'-part of that
ExtensionToken(qs) ==
  AfterLast(AfterLast(BeforeFirst(AfterFirst(qs, ";f="), ";"), "/"), ".")

(***************************************************************************)
(* C20: the token path resolution looks up is the text after the first     *)
(* ';f=' of the identifier, cut at the next ';' (or the end), then the     *)
(* last '/'-segment of it, then the last '.'-part of that; a later ';f='   *)
(* or a later field does not change it.                                    *)
(***************************************************************************)
C20_TokenFromFirstFileParam ==
  Contains(queryString, ";f=")
    => /\ Token(queryString) = ExtensionToken(queryString)
       /\ \A run \in Completed :
            (IsBlobFile(queryString) /\ NoShebang(fslocText)
               /\ ExtensionToken(queryString) \in CanonicalTypes)
              => ConfiguredWith(run, Expansion(ExtensionToken(queryString)))

\* a page with a second ';f=' field was highlighted by its first one
C20_Witness ==
  /\ queryString = ";a=blob;f=lib/app.php;hb=HEAD;f=x.c"
  /\ fslocText = ""
  /\ runs # <<>>
  /\ ConfiguredWith(runs[1], <<"php", "css", "html", "js">>)

\* the file path of the page: the text after the first ';f=', cut at the next ';'
FilePath(qs) == BeforeFirst(AfterFirst(qs, ";f="), ";")

\* the final '/'-segment of the file path
FinalSegment(qs) == AfterLast(FilePath(qs), "/")

\* s ends in d
EndsIn(s, d) == Len(s) >= Len(d) /\ SubSeq(s, Len(s) - Len(d) + 1, Len(s)) = d

(***************************************************************************)
(* C21: when the final segment of the file path contains no '.', the whole *)
(* segment is the token, so that an extensionless file is resolved by its  *)
(* full name; when the path ends in '/', the token is the empty string,    *)
(* path resolution yields null and, without a shebang, the run is a no-op. *)
(***************************************************************************)
C21_TokenEdgeCases ==
  Contains(queryString, ";f=")
    => /\ ~Contains(FinalSegment(queryString), ".")
            => Token(queryString) = FinalSegment(queryString)
       /\ EndsIn(FilePath(queryString), "/")
            => /\ Token(queryString) = ""
               /\ getPrimaryFileType(Token(queryString)) = Null
               /\ PathType(queryString) = Null
       /\ \A run \in Completed :
            (IsBlobFile(queryString) /\ NoShebang(fslocText))
              => /\ EndsIn(FilePath(queryString), "/") => SilentNoOp(run)
                 /\ (~Contains(FinalSegment(queryString), ".")
                       /\ FinalSegment(queryString) \in CanonicalTypes)
                      => ConfiguredWith(run, Expansion(FinalSegment(queryString)))

\* the extensionless file lib/perl was highlighted as perl
C21_Witness ==
  /\ queryString = ";a=blob;f=lib/perl"
  /\ fslocText = ""
  /\ runs # <<>>
  /\ ConfiguredWith(runs[1], <<"perl">>)

\* the call threw a TypeError
ThrewTypeError(call) == ~call.result.ok /\ call.result.val = "TypeError"

C23_ExecutableKeysAreRecognizedNames ==
  runs # <<>>
    => /\ \A name \in Range(tables.EXEC_LANG_NAMES) :
            Get(tables.EXEC_LANG_FILE_TYPES, name) # Undefined
       /\ \A name \in Range(getKeys(tables.EXEC_LANG_FILE_TYPES)) :
            inArray(name, tables.EXEC_LANG_NAMES)
       /\ Range(getKeys(tables.EXEC_LANG_FILE_TYPES)) = Range(tables.EXEC_LANG_NAMES)

\* the languages both an extension and a shebang can name
DualLanguages ==
  {name \in Range(EXEC_LANG_NAMES) :
     /\ name \in Range(getKeys(EXEC_LANG_FILE_TYPES))
     /\ name \in Range(getKeys(LANG_PRIMARY_FILE_TYPES))}

\* the tokens that path resolution alone turns into the language
TokensOf(language) ==
  {token \in Extensions :
     \/ token = language
     \/ /\ token \notin CanonicalTypes
        /\ \E i \in SynonymKeysOf(token) : LANG_FILE_TYPE_SYNONYMS[i][1] = language}

(***************************************************************************)
(* C24: for bash, perl, php, python and ruby, a file resolved through a    *)
(* shebang naming the language ends with the same final type as a file     *)
(* resolved, without a shebang, through an extension or synonym of the     *)
(* language.                                                               *)
(***************************************************************************)
C24_ShebangAndExtensionAgree ==
  (runs # <<>> /\ IsBlobFile(queryString) /\ ~NoShebang(fslocText)
     /\ ShebangName(fslocText) \in DualLanguages)
    => \A token \in TokensOf(ShebangName(fslocText)) :
         finalFileType(Token(queryString), fslocText) = finalFileType(token, "")

\* some page of the model makes the handler expand this type
Producible(type) ==
  \E qs \in PageIdentifiers, text \in FirstLines :
    LET run == onReady(qs, text, MaxBlocks)
    IN  ConfiguredWith(run, getFileTypeAssocations(type))

(***************************************************************************)
(* C25: every key of the association table is a type the pipeline can end  *)
(* with: for each key some page identifier and first line make the handler *)
(* call getFileTypeAssocations with that key, so that no entry of the      *)
(* table is unreachable.                                                   *)
(***************************************************************************)
C25_EveryAssociationKeyProducible ==
  \A i \in 1..Len(tables.FILE_TYPE_ASSOCIATIONS) :
    Producible(tables.FILE_TYPE_ASSOCIATIONS[i][1])

\* every type a run ends with is a key of the primary or of the synonym table
FinalTypesAreLanguageNames ==
  \A run \in Completed :
    run.calls # <<>>
      => run.calls[1].languages[1]
           \in Range(getKeys(LANG_PRIMARY_FILE_TYPES))
                 \cup Range(getKeys(LANG_FILE_TYPE_SYNONYMS))

\* the places in the run's calls where the function is called
CallsOf(run, fn) == {i \in 1..Len(run.calls) : run.calls[i].fn = fn}

(***************************************************************************)
(* C26: in every run that reaches highlighting, hljs.configure is called   *)
(* exactly once and before every hljs.highlightBlock call,                 *)
(* hljs.highlightBlock is called exactly once for each 'div.pre' block of  *)
(* the page, and every line-number color reset comes after the last        *)
(* hljs.highlightBlock call.                                               *)
(***************************************************************************)
C26_ConfigureThenBlocksThenReset ==
  \A run \in Completed :
    run.outcome = "highlighted"
      => /\ Cardinality(CallsOf(run, "hljs.configure")) = 1
         /\ \A i \in CallsOf(run, "hljs.configure") :
              \A j \in CallsOf(run, "hljs.highlightBlock") : i < j
         /\ Cardinality(CallsOf(run, "hljs.highlightBlock")) = numBlocks
         /\ \A block \in 1..numBlocks :
              Cardinality({j \in CallsOf(run, "hljs.highlightBlock") :
                             run.calls[j].index = block}) = 1
         /\ \A j \in CallsOf(run, "hljs.highlightBlock") :
              \A k \in CallsOf(run, "linenr.css") : j < k

\* a page of two blocks has been highlighted
C26_Witness ==
  /\ numBlocks = 2
  /\ runs # <<>>
  /\ runs[1].outcome = "highlighted"
  /\ Len(runs[1].calls) = 5

(***************************************************************************)
(* C27: on a page whose identifier contains ';a=blob' and no ';f=', the    *)
(* handler enters highlightSyntax, which returns at once: no token is      *)
(* looked up (whatever the first line, a shebang included), no highlighter *)
(* call is made and no error is raised.                                    *)
(***************************************************************************)
C27_BlobWithoutFileIsNoOp ==
  \A run \in Completed :
    (Contains(queryString, ";a=blob") /\ ~Contains(queryString, ";f="))
      => (run.entered /\ SilentNoOp(run))

\* the handler has run on a blob page without ';f=' under a shebang line
C27_Witness ==
  /\ queryString = "?p=repo.git;a=blob;hb=HEAD"
  /\ fslocText = "#!/bin/bash"
  /\ runs # <<>>
  /\ runs[1].entered
  /\ SilentNoOp(runs[1])

(***************************************************************************)
(* C28: shebang handling applies exactly when the first line contains the  *)
(* marker '#!' at any position: isExecutable is true iff the text contains *)
(* the marker (not only as a prefix) and false for the empty text; the     *)
(* target that is parsed is the text after the first marker up to the next *)
(* marker or the end; and on a blob page naming a file getExecutableType   *)
(* is entered exactly when the marker is there (it then throws, see C4).   *)
(***************************************************************************)
C28_MarkerAnywhereFirstTarget ==
  /\ isExecutable(fslocText) <=> Contains(fslocText, SHEBANG)
  /\ ~isExecutable("")
  /\ Contains(fslocText, SHEBANG)
       => targetPath(fslocText) = BeforeFirst(AfterFirst(fslocText, SHEBANG), SHEBANG)
  /\ \A run \in Completed :
       IsBlobFile(queryString)
         => (run.outcome = "ReferenceError" <=> Contains(fslocText, SHEBANG))

\* a first line with the marker in its middle has been handled as a shebang
C28_Witness ==
  /\ queryString = ";a=blob;f=lib/app.c"
  /\ fslocText = "exec ruby #!/usr/bin/ruby"
  /\ targetPath(fslocText) = "/usr/bin/ruby"
  /\ runs # <<>>
  /\ runs[1].outcome = "ReferenceError"

====
